---- MODULE Spec2Model ----
(***************************************************************************)
(* Model of the Pty wrapper of deno-pty-ffi (class Pty, current revision,  *)
(* src/src/utils.ts lines 375-846) together with a test double of the      *)
(* native engine it calls through LIBRARY.symbols.                          *)
(*                                                                         *)
(* JavaScript is single threaded: every method of Pty is synchronous and   *)
(* runs to completion, and the polling loop of a readable stream runs from *)
(* one `await` to the next without interruption.  Each of those runs is    *)
(* one action.  The engine is a black box: what it answers to a call is    *)
(* chosen nondeterministically among the answers its contract allows.      *)
(*                                                                         *)
(* The class has no static mutable state (LIBRARY is a constant), so the   *)
(* model follows one Pty object, the engine session behind its handle, the *)
(* readable streams and the writable stream made from it, and its polling  *)
(* interval.  Spec is a program that calls the methods and reads through   *)
(* readable streams; StreamSpec is one that uses the streams only.         *)
(***************************************************************************)
EXTENDS Integers, Sequences, FiniteSets, TLC

----------------------------------------------------------------------------
(* Bounds of the model *)

\* readable streams made from the Pty
MaxStreams == 1
\* non-empty chunks the child prints
MaxOut == 1

----------------------------------------------------------------------------
(* Values *)

\* #ptr is null, the handle pty_create minted, or (only if the constructor
\* mistook an error for success) the address of the engine's error string
NULL == "null"
Handle == "Pty*"
ErrBuf == "char*"

UNDEF == -1

StreamIds == 1..MaxStreams

ClosedMsg == "Pty is closed."
NullCreateMsg == "Pty creation succeeded but returned a null pointer."
NullSizeMsg == "Pty getSize succeeded but returned null data pointer."
UnexpectedMsg == "Pty read returned unexpected status: 5"
CloseLogMsg == "Error during pty_close FFI call:"
EngineMsgs == {"EIO"}
Cmds == {"echo", "nonexistent"}

\* A JavaScript string is the sequence of its code points; a C string is the
\* sequence of its bytes followed by a zero byte.
EmptyStr == << >>

CStr(bytes) == bytes \o <<0>>

\* the i-th non-empty chunk the child prints: one ASCII letter
Chunk(i) == <<96 + i>>

\* the texts the engine attaches to status 99: "0" and "1"
ExitTexts == {<<48>>, <<49>>}

\* the data a caller writes
WriteInputs == {<<120>>}

DefaultSize == [rows |-> 24, cols |-> 80, pixel_width |-> 0, pixel_height |-> 0]

InputSizes ==
  { [rows |-> 50, cols |-> 120, pixel_width |-> 1, pixel_height |-> 1],
    [rows |-> 1, cols |-> 1, pixel_width |-> UNDEF, pixel_height |-> UNDEF] }

----------------------------------------------------------------------------
(* Codec of a PtySize record: four uint16 fields, little endian *)

Lo(n) == n % 256
Hi(n) == (n \div 256) % 256

encodePointerLenData(sz) ==
  << Lo(sz.rows), Hi(sz.rows), Lo(sz.cols), Hi(sz.cols),
     Lo(sz.pixel_width), Hi(sz.pixel_width),
     Lo(sz.pixel_height), Hi(sz.pixel_height) >>

decodePointerLenData(bytes, len) ==
  IF len # 8 \/ Len(bytes) < 8 THEN DefaultSize
  ELSE [rows |-> bytes[1] + 256 * bytes[2],
        cols |-> bytes[3] + 256 * bytes[4],
        pixel_width |-> bytes[5] + 256 * bytes[6],
        pixel_height |-> bytes[7] + 256 * bytes[8]]

\* the bytes of a C string: those before its first zero byte
RECURSIVE UpToZero(_)
UpToZero(mem) ==
  IF mem = << >> \/ mem[1] = 0 THEN << >>
  ELSE <<mem[1]>> \o UpToZero(Tail(mem))

IsCont(b) == b >= 128 /\ b < 192

\* UTF-8 decoding of one-, two- and three-byte sequences; a byte that starts
\* no complete sequence decodes to U+FFFD
RECURSIVE Utf8Decode(_)
Utf8Decode(b) ==
  IF b = << >> THEN << >>
  ELSE IF b[1] < 128 THEN <<b[1]>> \o Utf8Decode(Tail(b))
  ELSE IF b[1] >= 192 /\ b[1] < 224 /\ Len(b) >= 2 /\ IsCont(b[2])
    THEN <<(b[1] - 192) * 64 + (b[2] - 128)>> \o Utf8Decode(SubSeq(b, 3, Len(b)))
  ELSE IF b[1] >= 224 /\ b[1] < 240 /\ Len(b) >= 3 /\ IsCont(b[2]) /\ IsCont(b[3])
    THEN <<(b[1] - 224) * 4096 + (b[2] - 128) * 64 + (b[3] - 128)>>
         \o Utf8Decode(SubSeq(b, 4, Len(b)))
  ELSE <<65533>> \o Utf8Decode(Tail(b))

\* decodeCString: getCString() of the memory at the pointer
decodeCString(mem) == Utf8Decode(UpToZero(mem))

\* the UTF-8 bytes of one code point of the basic plane
Utf8Bytes(cp) ==
  IF cp < 128 THEN <<cp>>
  ELSE IF cp < 2048 THEN <<192 + (cp \div 64), 128 + (cp % 64)>>
  ELSE <<224 + (cp \div 4096), 128 + ((cp \div 64) % 64), 128 + (cp % 64)>>

\* TextEncoder.encode
RECURSIVE Utf8Encode(_)
Utf8Encode(str) ==
  IF str = << >> THEN << >> ELSE Utf8Bytes(str[1]) \o Utf8Encode(Tail(str))

\* TextEncoder.encodeInto(str, buf): the bytes written into a buffer with
\* `room` bytes left; a character that does not fit whole ends the writing
RECURSIVE EncodeInto(_, _)
EncodeInto(str, room) ==
  IF str = << >> \/ Len(Utf8Bytes(str[1])) > room THEN << >>
  ELSE Utf8Bytes(str[1]) \o EncodeInto(Tail(str), room - Len(Utf8Bytes(str[1])))

\* new Uint8Array(n)
Zeros(n) == [i \in 1..n |-> 0]

\* encodeCString: `buf = new Uint8Array(str.length + 1); encodeInto(str, buf)`;
\* str.length counts UTF-16 units, one per character of the basic plane
encodeCString(str) ==
  LET written == EncodeInto(str, Len(str) + 1)
  IN  written \o Zeros(Len(str) + 1 - Len(written))

IsDigit(c) == c >= 48 /\ c <= 57

RECURSIVE ParseDigits(_, _)
ParseDigits(s, acc) ==
  IF s = << >> \/ ~IsDigit(s[1]) THEN acc
  ELSE ParseDigits(Tail(s), 10 * acc + (s[1] - 48))

\* Number.parseInt of a string of digits; NaN (no leading digit) is UNDEF here
ParseInt(s) == IF s = << >> \/ ~IsDigit(s[1]) THEN UNDEF ELSE ParseDigits(s, 0)

\* JSON text: the characters of the four keys of a PtySize
SizeFields == <<"rows", "cols", "pixel_width", "pixel_height">>

KeyChars ==
  [rows |-> <<114, 111, 119, 115>>,
   cols |-> <<99, 111, 108, 115>>,
   pixel_width |-> <<112, 105, 120, 101, 108, 95, 119, 105, 100, 116, 104>>,
   pixel_height |-> <<112, 105, 120, 101, 108, 95, 104, 101, 105, 103, 104, 116>>]

\* a number formatting that keeps the last digit only
DigitsLast(n) == <<48 + (n % 10)>>

\* the decimal digits JSON.stringify writes for a non-negative integer
RECURSIVE Digits(_)
Digits(n) ==
  IF n < 10 THEN <<48 + n>> ELSE Digits(n \div 10) \o <<48 + (n % 10)>>

\* the members `"key":digits` of the fields from the i-th on; a field that is
\* undefined is left out, as JSON.stringify does
RECURSIVE JsonMembers(_, _, _)
JsonMembers(size, i, first) ==
  IF i > Len(SizeFields) THEN << >>
  ELSE LET f == SizeFields[i]
       IN  IF size[f] = UNDEF THEN JsonMembers(size, i + 1, first)
           ELSE (IF first THEN << >> ELSE <<44>>)
                \o <<34>> \o KeyChars[f] \o <<34, 58>> \o Digits(size[f])
                \o JsonMembers(size, i + 1, FALSE)

\* JSON.stringify of a PtySize
JsonStringify(size) == <<123>> \o JsonMembers(size, 1, TRUE) \o <<125>>

RECURSIVE TakeUntil(_, _)
TakeUntil(t, c) ==
  IF t = << >> \/ t[1] = c THEN << >> ELSE <<t[1]>> \o TakeUntil(Tail(t), c)

RECURSIVE TakeDigits(_)
TakeDigits(t) ==
  IF t = << >> \/ ~IsDigit(t[1]) THEN << >> ELSE <<t[1]>> \o TakeDigits(Tail(t))

\* the object without any field: every field reads as undefined
NoFields == [f \in {SizeFields[i] : i \in 1..Len(SizeFields)} |-> UNDEF]

\* JSON.parse of the members of an object whose values are numbers
RECURSIVE JsonParseMembers(_, _)
JsonParseMembers(t, obj) ==
  IF t = << >> \/ t[1] = 125 THEN obj
  ELSE IF t[1] # 34 THEN JsonParseMembers(Tail(t), obj)
  ELSE LET key == TakeUntil(Tail(t), 34)
           afterKey == SubSeq(t, Len(key) + 4, Len(t))
           digits == TakeDigits(afterKey)
           rest == SubSeq(afterKey, Len(digits) + 1, Len(afterKey))
           f == CHOOSE g \in DOMAIN obj : KeyChars[g] = key
       IN  JsonParseMembers(rest, [obj EXCEPT ![f] = ParseDigits(digits, 0)])

\* JSON.parse of the text of a PtySize
JsonParse(text) == JsonParseMembers(text, NoFields)

\* encodeJsonCstring: `encodeCstring(JSON.stringify(data))`
encodeJsonCstring(data) == encodeCString(JsonStringify(data))

\* decodeJsonCstring: `JSON.parse(getCString())`
decodeJsonCstring(mem) == JsonParse(decodeCString(mem))

----------------------------------------------------------------------------
(* State *)

VARIABLES
  constructed, \* whether `new Pty(...)` has returned the object
  ptr,         \* Pty.#ptr: the engine handle, NULL once closed
  exitCode,    \* Pty.#exitCode, UNDEF until parsed
  sess,        \* engine: the session behind Handle
  closeCalls,  \* engine: how many times pty_close was invoked with Handle
  strm,        \* strm[s]: a ReadableStream made by `readable`, and its polling loop
  nstreams,    \* number of readable streams made so far
  wstrm,       \* the WritableStream made by `writable`
  pollingIntervalMs, \* Pty.#pollingIntervalMs
  last,        \* the wrapper call that ran in the last step and what it did
  libraryOpen, \* LIBRARY, the process-wide native library, is loaded
  parked,      \* the program's other Pty object and the session behind it
  codec        \* the codec call under test: its input and its output

\* the fields of one Pty object and of what belongs to it
instance == <<constructed, ptr, exitCode, sess, closeCalls, strm, nstreams, wstrm,
              pollingIntervalMs>>

vars == <<instance, last, libraryOpen, parked, codec>>

NoBuf == [kind |-> "none", len |-> 0]

NoPre == [closed |-> FALSE, drained |-> FALSE]

\* `last` is the record a test harness keeps of the latest wrapper call:
\* op/by/cmd say which call ran (by = 0: the caller, by = s: the polling loop
\* of stream s), pre what the Pty was before the call (closed: close() had
\* run; drained: still open, and a read had been answered 99), outcome/msg/data/done/
\* size what the call gave back (for write and resize, data and size are the
\* argument), calls the engine functions it invoked (with the state of the
\* session behind the handle at that moment), buf the buffer the engine
\* handed over, decLen the length used to decode it, and frees the release
\* calls made; interval is the argument of setPollingInterval or the result
\* of getPollingInterval; sent is the bytes the call passed to the engine.
NoCall == [op |-> "none", by |-> 0, cmd |-> "", pre |-> NoPre,
           outcome |-> "return", msg |-> "", data |-> EmptyStr, done |-> FALSE,
           size |-> DefaultSize, calls |-> << >>, buf |-> NoBuf, decLen |-> 0,
           frees |-> << >>, interval |-> 0, sent |-> << >>]

\* state: "free" (not minted), "live", "closed"; pos: chunks handed out;
\* reported99: a read has been answered 99
FreeSession == [state |-> "free", pos |-> 0, reported99 |-> FALSE,
                size |-> DefaultSize]

\* pc: "unused", "wait" (the loop awaits its timer), "exited"; timer:
\* currentTimeoutId is set; waitMs: the delay the latest setTimeout was given;
\* data, done: the result of the loop's last read; state, err, chunks: the
\* stream as its consumer sees it; signals: how many times the source called
\* controller.close() or controller.error() (2 stands for "more than once");
\* late: the source called controller.enqueue() on a stream that was no
\* longer readable; reads: the non-empty strings the reads of the loop
\* returned, in the order of the reads
NoStream == [pc |-> "unused", isCancelled |-> FALSE,
             timer |-> FALSE, waitMs |-> 0, data |-> EmptyStr, done |-> FALSE,
             state |-> "readable", err |-> "", chunks |-> << >>,
             signals |-> 0, late |-> FALSE, reads |-> << >>]

\* made: `writable` has been read; state, err: the stream as its writer sees
\* it ("writable" or "errored" with the stored error);
\* sink: which underlying sink the stream has ("closed": the one of the
\* closed branch of the getter, "open": the one that forwards to Pty.write)
NoWritable == [made |-> FALSE, sink |-> "open", state |-> "writable", err |-> ""]

WarnMsg == "Polling interval must be positive."

\* the arguments callers pass to setPollingInterval
IntervalInputs == {100, 5, 0, -10}

\* `#pollingIntervalMs = 100`
DefaultPollingIntervalMs == 100

\* no codec call has been made
NoCodec == [op |-> "none", str |-> << >>, size |-> DefaultSize, cut |-> 0,
            bytes |-> << >>, text |-> << >>, back |-> DefaultSize]

Init ==
  /\ libraryOpen = TRUE
  /\ parked = <<FALSE, NULL, UNDEF, FreeSession, 0, [s \in StreamIds |-> NoStream],
                0, NoWritable, DefaultPollingIntervalMs>>
  /\ codec = NoCodec
  /\ constructed = FALSE
  /\ ptr = NULL
  /\ exitCode = UNDEF
  /\ sess = FreeSession
  /\ closeCalls = 0
  /\ strm = [s \in StreamIds |-> NoStream]
  /\ nstreams = 0
  /\ wstrm = NoWritable
  /\ pollingIntervalMs = DefaultPollingIntervalMs
  /\ last = NoCall

----------------------------------------------------------------------------
(* The engine (LIBRARY.symbols): a black box behind the boundary *)

\* the state of the session a pointer designates
SessState(h) ==
  IF ~libraryOpen THEN "unloaded"
  ELSE IF h = Handle THEN sess.state ELSE "invalid"

\* the record of one engine call: the function, the pointer passed as the
\* session, the state of the session behind it at that moment, the status
\* returned and the string the engine left in the out descriptor
EngineCall(fn, h, status, outNull, out) ==
  [fn |-> fn, h |-> h, st |-> SessState(h), ret |-> status,
   outNull |-> outNull, out |-> out]

CStrBuf == [kind |-> "cstr", len |-> 0]
RegionBuf(len) == [kind |-> "region", len |-> len]
FreeString == [fn |-> "free_string", len |-> 0]
FreeData(len) == [fn |-> "free_data", len |-> len]

\* pty_create: status 0 with the fresh handle (or, out of contract, a null
\* one), status -1 with an error string
CreateResponses(cmd) ==
  (IF cmd = "echo"
     THEN {[status |-> 0, out |-> Handle, msg |-> ""],
           [status |-> 0, out |-> NULL, msg |-> ""]}
     ELSE {})
  \cup {[status |-> -1, out |-> ErrBuf, msg |-> m] : m \in EngineMsgs}

\* pty_read: status 0 with the next chunk or an empty string (or, out of
\* contract, a null pointer), 99 with the exit code text or a null pointer,
\* -1 with an error string, or a status outside the protocol.  What the engine
\* answers once it has reported 99 is undefined: any of these.
ReadResponses(h) ==
  LET avail == IF h = Handle /\ sess.pos < MaxOut
                 THEN {Chunk(sess.pos + 1)} ELSE {}
  IN  {[status |-> 0, null |-> FALSE, mem |-> CStr(d), msg |-> ""] :
          d \in {EmptyStr} \cup avail}
      \cup {[status |-> 0, null |-> TRUE, mem |-> << >>, msg |-> ""]}
      \cup {[status |-> 99, null |-> FALSE, mem |-> CStr(t), msg |-> ""] :
              t \in ExitTexts}
      \cup {[status |-> 99, null |-> TRUE, mem |-> << >>, msg |-> ""]}
      \cup {[status |-> -1, null |-> FALSE, mem |-> << >>, msg |-> m] :
              m \in EngineMsgs}
      \cup {[status |-> 5, null |-> TRUE, mem |-> << >>, msg |-> ""]}

\* pty_write and pty_resize: status 0, or -1 with an error string
WriteResponses ==
  {[status |-> 0, msg |-> ""]} \cup {[status |-> -1, msg |-> m] : m \in EngineMsgs}

\* pty_get_size: status 0 with the region holding the encoded size (or, out of
\* contract, a null pointer or another status), -1 with an error string
GetSizeResponses(h) ==
  LET bytes == encodePointerLenData(IF h = Handle THEN sess.size ELSE DefaultSize)
  IN  {[status |-> st, null |-> FALSE, bytes |-> bytes, len |-> Len(bytes), msg |-> ""] :
          st \in {0, 5}}
      \cup {[status |-> 0, null |-> TRUE, bytes |-> << >>, len |-> 0, msg |-> ""]}
      \cup {[status |-> -1, null |-> TRUE, bytes |-> << >>, len |-> 0, msg |-> m] :
              m \in EngineMsgs}

\* pty_close returns nothing; the FFI call itself may raise
CloseResponses == {"ok", "raise"}

\* the session after pty_read(h) answered r
EngineAfterRead(h, r) ==
  IF SessState(h) # "live" THEN sess
  ELSE [sess EXCEPT !.pos = IF r.status = 0 /\ ~r.null /\ Len(r.mem) > 1
                               THEN @ + 1 ELSE @,
                    !.reported99 = @ \/ r.status = 99]

\* the session after pty_resize(h, bytes) answered r
EngineAfterResize(h, bytes, r) ==
  IF SessState(h) # "live" \/ r.status # 0 THEN sess
  ELSE [sess EXCEPT !.size = decodePointerLenData(bytes, Len(bytes))]

\* the session after pty_close(h)
EngineAfterClose(h) ==
  IF h = Handle THEN [sess EXCEPT !.state = "closed"] ELSE sess

\* the close counter saturates at 2: "more than once" is all that is observed
CloseCallsAfter(h) ==
  IF h = Handle /\ closeCalls < 2 THEN closeCalls + 1 ELSE closeCalls

----------------------------------------------------------------------------
(* class Pty: the wrapper *)

\* a guard that never finds the Pty closed
IsClosedNever == FALSE

\* `!this.#ptr`: the guard that opens read, write, getSize, resize, close and
\* the stream getters
IsClosed == ptr = NULL

\* the log record of a call that begins now
Call(op, by) ==
  [NoCall EXCEPT !.op = op, !.by = by,
                 !.pre = [closed |-> constructed /\ ptr = NULL,
                          drained |-> ptr = Handle /\ sess.reported99]]

Throw(c, m) == [c EXCEPT !.outcome = "throw", !.msg = m]

\* readErrorAndFree: reads the error string and releases it
readErrorAndFree(r) == [msg |-> r.msg, frees |-> <<FreeString>>]

\* an engine error that is read and released but not raised
ThrowEngineErrorSwallowed(c, prefix, r) ==
  LET e == readErrorAndFree(r)
  IN  [c EXCEPT !.frees = @ \o e.frees]

\* `const errorMsg = readErrorAndFree(...); throw new Error(prefix + errorMsg)`
ThrowEngineError(c, prefix, r) ==
  LET e == readErrorAndFree(r)
  IN  [c EXCEPT !.outcome = "throw", !.msg = prefix \o e.msg, !.frees = @ \o e.frees]

\* the buffer pty_read hands over with answer r
ReadBuf(r) == IF r.status \in {0, 99, -1} /\ ~r.null THEN CStrBuf ELSE NoBuf

\* case 0 without the `finally` that releases the string
ReadCase0Leak(c, r) ==
  IF r.null THEN [c EXCEPT !.data = EmptyStr, !.done = FALSE]
  ELSE [c EXCEPT !.data = decodeCString(r.mem), !.done = FALSE]

\* case 0 taking an empty string for the end of the output
ReadCase0EmptyDone(c, r) ==
  IF r.null THEN [c EXCEPT !.data = EmptyStr, !.done = FALSE]
  ELSE [c EXCEPT !.data = decodeCString(r.mem),
                 !.done = decodeCString(r.mem) = EmptyStr,
                 !.frees = @ \o <<FreeString>>]

\* read, case 0
ReadCase0(c, r) ==
  IF r.null THEN [c EXCEPT !.data = EmptyStr, !.done = FALSE]
  ELSE [c EXCEPT !.data = decodeCString(r.mem), !.done = FALSE,
                 !.frees = @ \o <<FreeString>>]

\* read, case 99
ReadCase99(c, r) ==
  IF r.null THEN [c EXCEPT !.data = EmptyStr, !.done = TRUE]
  ELSE [c EXCEPT !.data = EmptyStr, !.done = TRUE, !.frees = @ \o <<FreeString>>]

\* Pty.read(), given the answer r the engine would give: the log of the call
PtyRead(by, r) ==
  LET c == Call("read", by)
  IN  IF IsClosed THEN Throw(c, ClosedMsg)
      ELSE LET c1 == [c EXCEPT !.calls = <<EngineCall("pty_read", ptr, r.status, r.null, r.mem)>>,
                               !.buf = ReadBuf(r)]
           IN  CASE r.status = 0 -> ReadCase0(c1, r)
                 [] r.status = 99 -> ReadCase99(c1, r)
                 [] r.status = -1 -> ThrowEngineError(c1, "Pty read failed: ", r)
                 [] OTHER -> Throw(c1, UnexpectedMsg)

\* a read that parses the string of every answer
ReadExitCodeAnyStatus(r) ==
  IF ~IsClosed /\ r.status \in {0, 99} /\ ~r.null
    THEN ParseInt(decodeCString(r.mem))
    ELSE exitCode

\* #exitCode after Pty.read()
ReadExitCode(r) ==
  IF ~IsClosed /\ r.status = 99 /\ ~r.null
    THEN ParseInt(decodeCString(r.mem))
    ELSE exitCode

\* the engine after Pty.read()
ReadSess(r) == IF IsClosed THEN sess ELSE EngineAfterRead(ptr, r)

\* a write that calls pty_write again when it failed
WriteCallsRetried(r) ==
  LET call == EngineCall("pty_write", ptr, r.status, r.status # -1, << >>)
  IN  IF r.status = -1 THEN <<call, call>> ELSE <<call>>

\* `const status = LIBRARY.symbols.pty_write(...)`: the one engine call of write
WriteCalls(r) == <<EngineCall("pty_write", ptr, r.status, r.status # -1, << >>)>>

\* Pty.write(data)
PtyWrite(data, r) ==
  LET c == [Call("write", 0) EXCEPT !.data = data]
  IN  IF IsClosed THEN Throw(c, ClosedMsg)
      ELSE LET c1 == [c EXCEPT !.calls = WriteCalls(r),
                               !.sent = encodeCString(data),
                               !.buf = IF r.status = -1 THEN CStrBuf ELSE NoBuf]
           IN  IF r.status = -1 THEN ThrowEngineError(c1, "Pty write failed: ", r)
               ELSE c1

\* a getSize that reports the size of a fresh terminal
GetSizeResultDefault(r) == DefaultSize

\* `const size = decodePointerLenData<PtySize>(dataPtr, len)`
GetSizeResult(r) == decodePointerLenData(r.bytes, r.len)

\* Pty.getSize()
PtyGetSize(r) ==
  LET c == Call("getSize", 0)
  IN  IF IsClosed THEN Throw(c, ClosedMsg)
      ELSE LET c1 == [c EXCEPT !.calls = <<EngineCall("pty_get_size", ptr, r.status, r.null, r.bytes)>>,
                               !.buf = IF r.status = -1 THEN CStrBuf
                                       ELSE IF r.null THEN NoBuf
                                       ELSE RegionBuf(Len(r.bytes))]
           IN  IF r.status = -1 THEN ThrowEngineError(c1, "Pty getSize failed: ", r)
               ELSE IF r.null THEN Throw(c1, NullSizeMsg)
               ELSE [c1 EXCEPT !.size = GetSizeResult(r),
                               !.decLen = r.len,
                               !.frees = @ \o <<FreeData(r.len)>>]

\* a `= 0` where the code has `??= 0`
WithPixelDefaultsZeroed(size) == [size EXCEPT !.pixel_height = 0, !.pixel_width = 0]

\* `size.pixel_height ??= 0; size.pixel_width ??= 0`
WithPixelDefaults(size) ==
  [size EXCEPT !.pixel_height = IF @ = UNDEF THEN 0 ELSE @,
               !.pixel_width = IF @ = UNDEF THEN 0 ELSE @]

\* a resize that encodes the size as it was given
ResizeBytesRaw(size) == encodePointerLenData(size)

\* `sizeData`: the bytes resize passes to pty_resize
ResizeBytes(size) == encodePointerLenData(WithPixelDefaults(size))

\* Pty.resize(size)
PtyResize(size, r) ==
  LET c == [Call("resize", 0) EXCEPT !.size = size]
  IN  IF IsClosed THEN Throw(c, ClosedMsg)
      ELSE LET c1 == [c EXCEPT !.calls = <<EngineCall("pty_resize", ptr, r.status, r.status # -1, << >>)>>,
                               !.sent = ResizeBytes(size),
                               !.buf = IF r.status = -1 THEN CStrBuf ELSE NoBuf]
           IN  IF r.status = -1 THEN ThrowEngineError(c1, "Pty resize failed: ", r)
               ELSE c1

\* the handle read after #ptr was nulled
PtrToCloseNulled == NULL

\* `ptrToClose`: the handle close() passes to pty_close
PtrToClose == ptr

\* close() that forgets to null #ptr
PtrAfterCloseStale == ptr

\* `this.#ptr = null`: the value close() leaves in #ptr
PtrAfterClose == NULL

\* a close() that nulls #ptr after the engine call, and only if it returned
PtrAfterEngineCloseUnlessRaised(r) == IF r = "raise" THEN ptr ELSE NULL

\* #ptr after close() on an open Pty, the engine call having answered r: it
\* was nulled before the call, inside no `try`
PtrAfterEngineClose(r) == PtrAfterClose

\* a close() that ends with `LIBRARY.close()`
LibraryAfterCloseUnloaded == IsClosed /\ libraryOpen

\* close() leaves LIBRARY alone: `DO NOT close the global LIBRARY here`
LibraryAfterClose == libraryOpen

\* Pty.close(): an exception of the engine call is caught and logged
PtyClose(r) ==
  LET c == Call("close", 0)
  IN  IF IsClosed THEN c
      ELSE [c EXCEPT !.calls = <<EngineCall("pty_close", PtrToClose, 0, TRUE, << >>)>>,
                     !.msg = IF r = "raise" THEN CloseLogMsg ELSE ""]

\* a constructor that does not look at the status
CreateFailedNever(r) == FALSE

\* `status === -1` in the constructor
CreateFailed(r) == r.status = -1

----------------------------------------------------------------------------
(* Actions: the calls a program makes *)

\* new Pty(command, options)
Constructor(cmd) ==
  /\ ~constructed
  /\ \E r \in CreateResponses(cmd) :
       LET c == [NoCall EXCEPT !.op = "new", !.cmd = cmd,
                               !.calls = <<EngineCall("pty_create", NULL, r.status, r.out = NULL, << >>)>>,
                               !.buf = IF r.status = -1 THEN CStrBuf ELSE NoBuf]
       IN  /\ sess' = IF r.status = 0 /\ r.out = Handle
                        THEN [sess EXCEPT !.state = "live"] ELSE sess
           /\ IF CreateFailed(r)
                THEN /\ last' = ThrowEngineError(c, "Pty creation failed: ", r)
                     /\ UNCHANGED <<constructed, ptr>>
              ELSE IF r.out = NULL
                THEN /\ last' = Throw(c, NullCreateMsg)
                     /\ UNCHANGED <<constructed, ptr>>
              ELSE /\ constructed' = TRUE
                   /\ ptr' = r.out
                   /\ last' = c
  /\ UNCHANGED <<exitCode, closeCalls, strm, nstreams, wstrm, pollingIntervalMs>>
  /\ UNCHANGED <<libraryOpen, parked, codec>>

Read ==
  /\ constructed
  /\ \E r \in ReadResponses(ptr) :
       /\ last' = PtyRead(0, r)
       /\ exitCode' = ReadExitCode(r)
       /\ sess' = ReadSess(r)
  /\ UNCHANGED <<constructed, ptr, closeCalls, strm, nstreams, wstrm, pollingIntervalMs>>
  /\ UNCHANGED <<libraryOpen, parked, codec>>

Write(data) ==
  /\ constructed
  /\ \E r \in WriteResponses : last' = PtyWrite(data, r)
  /\ UNCHANGED <<constructed, ptr, exitCode, sess, closeCalls, strm, nstreams, wstrm, pollingIntervalMs>>
  /\ UNCHANGED <<libraryOpen, parked, codec>>

GetSize ==
  /\ constructed
  /\ \E r \in GetSizeResponses(ptr) : last' = PtyGetSize(r)
  /\ UNCHANGED <<constructed, ptr, exitCode, sess, closeCalls, strm, nstreams, wstrm, pollingIntervalMs>>
  /\ UNCHANGED <<libraryOpen, parked, codec>>

Resize(size) ==
  /\ constructed
  /\ \E r \in WriteResponses :
       /\ last' = PtyResize(size, r)
       /\ sess' = IF IsClosed THEN sess
                  ELSE EngineAfterResize(ptr, ResizeBytes(size), r)
  /\ UNCHANGED <<constructed, ptr, exitCode, closeCalls, strm, nstreams, wstrm, pollingIntervalMs>>
  /\ UNCHANGED <<libraryOpen, parked, codec>>

Close ==
  /\ constructed
  /\ \E r \in CloseResponses :
       /\ last' = PtyClose(r)
       /\ ptr' = IF IsClosed THEN ptr ELSE PtrAfterEngineClose(r)
       /\ sess' = IF IsClosed THEN sess ELSE EngineAfterClose(PtrToClose)
       /\ closeCalls' = IF IsClosed THEN closeCalls ELSE CloseCallsAfter(PtrToClose)
  /\ UNCHANGED <<constructed, exitCode, strm, nstreams, wstrm, pollingIntervalMs>>
  /\ UNCHANGED <<codec, parked>>
  /\ libraryOpen' = LibraryAfterClose

----------------------------------------------------------------------------
(* get readable: the ReadableStream and its polling loop *)

\* a controller.close() that does nothing
ControllerCloseNoop(st) == st

\* controller.close(): on a stream that is no longer readable it raises, the
\* loop's catch passes that to controller.error, which then does nothing
ControllerClose(st) ==
  IF st.state = "readable"
    THEN [st EXCEPT !.state = "closed", !.signals = IF @ < 2 THEN @ + 1 ELSE @]
    ELSE [st EXCEPT !.signals = IF @ < 2 THEN @ + 1 ELSE @]

\* a controller.error() that does nothing
ControllerErrorNoop(st, m) == st

\* controller.error(e)
ControllerError(st, m) ==
  IF st.state = "readable"
    THEN [st EXCEPT !.state = "errored", !.err = m,
                    !.signals = IF @ < 2 THEN @ + 1 ELSE @]
    ELSE [st EXCEPT !.signals = IF @ < 2 THEN @ + 1 ELSE @]

ControllerEnqueue(st, data) ==
  IF st.state = "readable" THEN [st EXCEPT !.chunks = Append(@, data)]
  ELSE [st EXCEPT !.late = TRUE]

\* a clearTimeoutIfActive() that leaves the timer
ClearTimeoutNoop(st) == st

\* clearTimeoutIfActive()
ClearTimeoutIfActive(st) == [st EXCEPT !.timer = FALSE]

\* a loop without `break`: it goes on to its next turn
LoopExitContinues(st) == [st EXCEPT !.pc = "wait", !.timer = TRUE]

\* the loop leaves through `break` or through its `while` condition
LoopExit(st) == [st EXCEPT !.pc = "exited"]

\* a loop that reads without looking at #ptr
TurnReadsIgnoringClose(st) == ~st.isCancelled

\* whether a turn of the loop that starts in st calls ptyInstance.read()
TurnReads(st) == ~st.isCancelled /\ ~IsClosed

\* a turn whose read is not followed by a wait on a timer
LoopTurnNoTimer(st, c) ==
  IF st.isCancelled THEN LoopExit(st)
  ELSE IF ~TurnReads(st)
    THEN LoopExit(ClearTimeoutIfActive(ControllerClose(st)))
  ELSE IF c.outcome = "throw"
    THEN LoopExit(ClearTimeoutIfActive(ControllerError(st, c.msg)))
  ELSE [st EXCEPT !.pc = "wait", !.waitMs = pollingIntervalMs,
                  !.data = c.data, !.done = c.done,
                  !.reads = IF Len(c.data) > 0 THEN Append(@, c.data) ELSE @]

\* One turn of `while (!isCancelled)`, from the top of the loop to the await
\* of the timer: the stream record after it, c being the log of the read the
\* turn makes (its outcome decides between the timer and the catch branch).
LoopTurn(st, c) ==
  IF st.isCancelled THEN LoopExit(st)
  ELSE IF ~TurnReads(st)
    THEN LoopExit(ClearTimeoutIfActive(ControllerClose(st)))
  ELSE IF c.outcome = "throw"
    THEN LoopExit(ClearTimeoutIfActive(
           IF st.isCancelled THEN st ELSE ControllerError(st, c.msg)))
  ELSE [st EXCEPT !.pc = "wait", !.timer = TRUE, !.waitMs = pollingIntervalMs,
                  !.data = c.data, !.done = c.done,
                  !.reads = IF Len(c.data) > 0 THEN Append(@, c.data) ELSE @]

\* a loop that enqueues whatever the read returned
EnqueueAlways(st) == ControllerEnqueue(st, st.data)

\* a loop that looks at #ptr before it enqueues
EnqueueIfDataAndOpen(st) ==
  IF Len(st.data) > 0 /\ ~IsClosed THEN ControllerEnqueue(st, st.data) ELSE st

\* `if (data.length > 0) controller.enqueue(data)`
EnqueueIfData(st) ==
  IF Len(st.data) > 0 THEN ControllerEnqueue(st, st.data) ELSE st

\* the state a turn of the loop of stream s leaves, the stream being st at
\* the top of the loop
RunTurn(s, st) ==
  IF TurnReads(st)
    THEN \E r \in ReadResponses(ptr) :
           LET c == PtyRead(s, r)
           IN  /\ last' = c
               /\ exitCode' = ReadExitCode(r)
               /\ sess' = ReadSess(r)
               /\ strm' = [strm EXCEPT ![s] = LoopTurn(st, c)]
    ELSE /\ last' = Call("poll", s)
         /\ strm' = [strm EXCEPT ![s] = LoopTurn(st, NoCall)]
         /\ UNCHANGED <<exitCode, sess>>

\* pty.readable, in a program that makes at most n streams
ReadableUpTo(n) ==
  /\ constructed
  /\ nstreams < n
  /\ nstreams' = nstreams + 1
  /\ IF IsClosed
       THEN /\ strm' = [strm EXCEPT ![nstreams + 1] =
                          LoopExit(ControllerError(NoStream, ClosedMsg))]
            /\ last' = Call("readable", nstreams + 1)
            /\ UNCHANGED <<exitCode, sess>>
       ELSE RunTurn(nstreams + 1, NoStream)
  /\ UNCHANGED <<constructed, ptr, closeCalls, wstrm, pollingIntervalMs>>
  /\ UNCHANGED <<libraryOpen, parked, codec>>

\* pty.readable
Readable == ReadableUpTo(MaxStreams)

\* the timer of stream s fires: the loop resumes after its await, handles the
\* result of the read it made before the wait, and runs its next turn
TimerFire(s) ==
  /\ strm[s].pc = "wait"
  /\ strm[s].timer
  /\ LET st == [strm[s] EXCEPT !.timer = FALSE]
     IN  IF st.done
           THEN /\ strm' = [strm EXCEPT ![s] =
                     LoopExit(IF st.isCancelled THEN st ELSE ControllerClose(st))]
                /\ last' = Call("poll", s)
                /\ UNCHANGED <<exitCode, sess>>
           ELSE RunTurn(s, EnqueueIfData(st))
  /\ UNCHANGED <<constructed, ptr, closeCalls, nstreams, wstrm, pollingIntervalMs>>
  /\ UNCHANGED <<libraryOpen, parked, codec>>

\* an isCancelled flag and a timer id shared by all streams of the Pty
CancelReachesAll(s, t) == TRUE

\* whether the cancel() of stream s reaches the loop of stream t:
\* `isCancelled` and `currentTimeoutId` are locals of one call of the getter
CancelReaches(s, t) == s = t

\* the consumer cancels stream s (reader.cancel(), or leaving a for-await
\* loop): the source's cancel() runs only while the stream is readable
Cancel(s) ==
  /\ strm[s].pc # "unused"
  /\ strm[s].state = "readable"
  /\ strm' = [t \in DOMAIN strm |->
                IF t = s
                  THEN ClearTimeoutIfActive([strm[t] EXCEPT !.isCancelled = TRUE,
                                                            !.state = "closed"])
                ELSE IF CancelReaches(s, t)
                  THEN ClearTimeoutIfActive([strm[t] EXCEPT !.isCancelled = TRUE])
                ELSE strm[t]]
  /\ last' = Call("cancel", s)
  /\ UNCHANGED <<constructed, ptr, exitCode, sess, closeCalls, nstreams, wstrm, pollingIntervalMs>>
  /\ UNCHANGED <<libraryOpen, parked, codec>>

----------------------------------------------------------------------------
(* get writable: the WritableStream and its sink *)

\* WritableStreamDefaultController.error(e): only a writable stream takes it
WritableError(w, m) ==
  IF w.state = "writable" THEN [w EXCEPT !.state = "errored", !.err = m] ELSE w

\* a stream of the closed branch whose start() signals nothing
WritableOpenAtStart == [made |-> TRUE, sink |-> "closed", state |-> "writable", err |-> ""]

\* the stream of the closed branch: start() calls controller.error
WritableClosedAtStart == WritableError(WritableOpenAtStart, ClosedMsg)

\* pty.writable
Writable ==
  /\ constructed
  /\ ~wstrm.made
  /\ wstrm' = IF IsClosed THEN WritableClosedAtStart
               ELSE [NoWritable EXCEPT !.made = TRUE]
  /\ last' = Call("writable", 0)
  /\ UNCHANGED <<constructed, ptr, exitCode, sess, closeCalls, strm, nstreams,
                 pollingIntervalMs>>
  /\ UNCHANGED <<libraryOpen, parked, codec>>

\* what the runtime rejects a write or a close on a closed stream with, and
\* the reason a caller aborts with
WriterClosedMsg == "The stream is closing or closed."
AbortReason == "aborted by the caller"

\* a sink close()/abort() that closes the Pty
PtrAfterWriterEndRetired == NULL

\* #ptr after the sink's close() or abort(): both bodies are empty
PtrAfterWriterEnd == ptr

\* a sink close()/abort() that calls pty_close
WriterEndCallsClose == <<EngineCall("pty_close", ptr, 0, TRUE, << >>)>>

\* the engine calls of the sink's close() and abort(): none
WriterEndCalls == << >>

\* The sink's write(chunk, controller), given the answer r the engine would
\* give to pty_write: the log of the call.  Its op is "writable.write"; calls,
\* buf and frees are those of the Pty.write it makes.
SinkWrite(data, r) ==
  LET c == [Call("writable.write", 0) EXCEPT !.data = data]
  IN  IF wstrm.sink = "closed" \/ IsClosed THEN Throw(c, ClosedMsg)
      ELSE [PtyWrite(data, r) EXCEPT !.op = "writable.write"]

\* writer.write(chunk): an errored stream rejects with its stored error and
\* does not call the sink; otherwise the sink's write runs, and what it throws
\* errors the stream and rejects the write
WritableWrite(data) ==
  /\ wstrm.made
  /\ \E r \in WriteResponses :
       LET c == SinkWrite(data, r)
       IN  IF wstrm.state = "errored"
             THEN /\ last' = Throw([Call("writable.write", 0) EXCEPT !.data = data],
                                   wstrm.err)
                  /\ UNCHANGED wstrm
           ELSE IF wstrm.state = "closed"
             THEN /\ last' = Throw([Call("writable.write", 0) EXCEPT !.data = data],
                                   WriterClosedMsg)
                  /\ UNCHANGED wstrm
             ELSE /\ last' = c
                  /\ wstrm' = IF c.outcome = "throw"
                                THEN WritableError(wstrm, c.msg) ELSE wstrm
  /\ UNCHANGED <<constructed, ptr, exitCode, sess, closeCalls, strm, nstreams,
                 pollingIntervalMs>>
  /\ UNCHANGED <<libraryOpen, parked, codec>>

\* writer.close(): a writable stream runs the sink's close() and becomes
\* closed; an errored one rejects with its stored error, a closed one with
\* the runtime's error; in both the sink is not called
WriterClose ==
  /\ wstrm.made
  /\ LET c == Call("writable.close", 0)
     IN  IF wstrm.state = "writable"
           THEN /\ wstrm' = [wstrm EXCEPT !.state = "closed"]
                /\ ptr' = PtrAfterWriterEnd
                /\ last' = [c EXCEPT !.calls = WriterEndCalls]
           ELSE /\ last' = Throw(c, IF wstrm.state = "errored" THEN wstrm.err
                                    ELSE WriterClosedMsg)
                /\ UNCHANGED <<wstrm, ptr>>
  /\ UNCHANGED <<constructed, exitCode, sess, closeCalls, strm, nstreams,
                 pollingIntervalMs>>
  /\ UNCHANGED <<libraryOpen, parked, codec>>

\* writer.abort(reason): a writable stream runs the sink's abort() and is
\* errored with the reason; on a closed or errored stream nothing happens
WriterAbort ==
  /\ wstrm.made
  /\ IF wstrm.state = "writable"
       THEN /\ wstrm' = [wstrm EXCEPT !.state = "errored", !.err = AbortReason]
            /\ ptr' = PtrAfterWriterEnd
            /\ last' = [Call("writable.abort", 0) EXCEPT !.calls = WriterEndCalls]
       ELSE /\ last' = Call("writable.abort", 0)
            /\ UNCHANGED <<wstrm, ptr>>
  /\ UNCHANGED <<constructed, exitCode, sess, closeCalls, strm, nstreams,
                 pollingIntervalMs>>
  /\ UNCHANGED <<libraryOpen, parked, codec>>

----------------------------------------------------------------------------
(* The polling interval *)

\* a setter that stores whatever it is given
IntervalAfterSetUnchecked(ms) == ms

\* `if (ms > 0) this.#pollingIntervalMs = ms`
IntervalAfterSet(ms) == IF ms > 0 THEN ms ELSE pollingIntervalMs

\* setPollingInterval(ms)
SetPollingInterval(ms) ==
  /\ constructed
  /\ pollingIntervalMs' = IntervalAfterSet(ms)
  /\ last' = [Call("setPollingInterval", 0) EXCEPT
                !.interval = ms, !.msg = IF ms > 0 THEN "" ELSE WarnMsg]
  /\ UNCHANGED <<constructed, ptr, exitCode, sess, closeCalls, strm, nstreams, wstrm>>
  /\ UNCHANGED <<libraryOpen, parked, codec>>

\* getPollingInterval()
GetPollingInterval ==
  /\ constructed
  /\ last' = [Call("getPollingInterval", 0) EXCEPT !.interval = pollingIntervalMs]
  /\ UNCHANGED <<constructed, ptr, exitCode, sess, closeCalls, strm, nstreams, wstrm,
                 pollingIntervalMs>>
  /\ UNCHANGED <<libraryOpen, parked, codec>>

----------------------------------------------------------------------------

Next ==
  \/ \E cmd \in Cmds : Constructor(cmd)
  \/ Read
  \/ \E d \in WriteInputs : Write(d)
  \/ GetSize
  \/ \E size \in InputSizes : Resize(size)
  \/ Close
  \/ Readable
  \/ \E s \in StreamIds : TimerFire(s)
  \/ \E s \in StreamIds : Cancel(s)

Spec == Init /\ [][Next]_vars

\* A program that uses the Pty through its streams: the readable streams do
\* the reading, the writable stream the writing; the polling interval is
\* set and read.
StreamNext ==
  \/ \E cmd \in Cmds : Constructor(cmd)
  \/ Close
  \/ Readable
  \/ \E s \in StreamIds : TimerFire(s)
  \/ \E s \in StreamIds : Cancel(s)
  \/ Writable
  \/ \E d \in WriteInputs : WritableWrite(d)
  \/ \E ms \in IntervalInputs : SetPollingInterval(ms)
  \/ GetPollingInterval

StreamSpec == Init /\ [][StreamNext]_vars

\* The program holds two Pty objects. Every field of the class is a private
\* instance field, so the methods above act on the object they are called on:
\* `instance` is that object (with the engine session behind its handle),
\* `parked` the other one. Switch turns the program to its other object and
\* starts a fresh call record. LIBRARY is the one thing both share.
Switch ==
  /\ constructed' = parked[1]
  /\ ptr' = parked[2]
  /\ exitCode' = parked[3]
  /\ sess' = parked[4]
  /\ closeCalls' = parked[5]
  /\ strm' = parked[6]
  /\ nstreams' = parked[7]
  /\ wstrm' = parked[8]
  /\ pollingIntervalMs' = parked[9]
  /\ parked' = instance
  /\ last' = NoCall
  /\ UNCHANGED <<libraryOpen, codec>>

TwoPtyNext ==
  \/ \E cmd \in Cmds : Constructor(cmd)
  \/ Read
  \/ \E d \in WriteInputs : Write(d)
  \/ GetSize
  \/ Close
  \/ Switch

TwoPtySpec == Init /\ [][TwoPtyNext]_vars

\* A program that uses the methods and the writable stream of one Pty, and
\* closes or aborts the writer.
WriterNext ==
  \/ \E cmd \in Cmds : Constructor(cmd)
  \/ Read
  \/ \E d \in WriteInputs : Write(d)
  \/ GetSize
  \/ \E size \in InputSizes : Resize(size)
  \/ Close
  \/ Writable
  \/ \E d \in WriteInputs : WritableWrite(d)
  \/ WriterClose
  \/ WriterAbort

WriterSpec == Init /\ [][WriterNext]_vars

\* A program that uses everything: the methods, the readable streams, the
\* writable stream and its writer.
\* A program that uses one Pty through its streams only, closes or aborts the
\* writer, cancels the readers and closes the Pty.
LifecycleNext ==
  \/ \E cmd \in Cmds : Constructor(cmd)
  \/ Close
  \/ Readable
  \/ \E s \in StreamIds : TimerFire(s)
  \/ \E s \in StreamIds : Cancel(s)
  \/ Writable
  \/ \E d \in WriteInputs : WritableWrite(d)
  \/ WriterClose
  \/ WriterAbort

LifecycleSpec == Init /\ [][LifecycleNext]_vars

\* A program that takes `readable` twice from one Pty and lets both polling
\* loops run.
TwoStreams == 2

TwoStreamIds == 1..TwoStreams

TwoStreamInit ==
  /\ libraryOpen = TRUE
  /\ parked = <<FALSE, NULL, UNDEF, FreeSession, 0, [s \in StreamIds |-> NoStream],
                0, NoWritable, DefaultPollingIntervalMs>>
  /\ codec = NoCodec
  /\ constructed = FALSE
  /\ ptr = NULL
  /\ exitCode = UNDEF
  /\ sess = FreeSession
  /\ closeCalls = 0
  /\ strm = [s \in TwoStreamIds |-> NoStream]
  /\ nstreams = 0
  /\ wstrm = NoWritable
  /\ pollingIntervalMs = DefaultPollingIntervalMs
  /\ last = NoCall

TwoStreamNext ==
  \/ \E cmd \in Cmds : Constructor(cmd)
  \/ Close
  \/ ReadableUpTo(TwoStreams)
  \/ \E s \in TwoStreamIds : TimerFire(s)
  \/ \E s \in TwoStreamIds : Cancel(s)

TwoStreamSpec == TwoStreamInit /\ [][TwoStreamNext]_vars

\* A program that reads through the readable streams only, in a runtime whose
\* timers keep firing: a timer that is pending fires unless it is cleared.
DrainNext ==
  \/ \E cmd \in Cmds : Constructor(cmd)
  \/ Close
  \/ Readable
  \/ \E s \in StreamIds : TimerFire(s)
  \/ \E s \in StreamIds : Cancel(s)

DrainSpec ==
  Init /\ [][DrainNext]_vars /\ \A s \in StreamIds : WF_vars(TimerFire(s))

\* The codec on its own: a harness calls the encoders and decoders on inputs
\* of its choice and keeps the input and the output of the latest call.
MaxLen == 2

\* the characters a, e-acute (two bytes in UTF-8) and U+65E5 (three bytes)
CodecChars == {97, 233, 26085}

CodecStrings == UNION {[1..k -> CodecChars] : k \in 0..MaxLen}

U16Samples == {0, 258, 65535}

CodecSizes ==
  [rows : U16Samples, cols : U16Samples,
   pixel_width : U16Samples \cup {UNDEF}, pixel_height : U16Samples \cup {UNDEF}]

\* encodeCString(str)
EncodeText(str) ==
  /\ codec' = [NoCodec EXCEPT !.op = "encodeCString", !.str = str,
                              !.bytes = encodeCString(str)]
  /\ UNCHANGED <<instance, last, libraryOpen, parked>>

\* decodeJsonCstring(encodeJsonCstring(size))
JsonRoundTrip(size) ==
  /\ codec' = [NoCodec EXCEPT !.op = "json", !.size = size,
                              !.bytes = encodeJsonCstring(size),
                              !.back = decodeJsonCstring(encodeJsonCstring(size))]
  /\ UNCHANGED <<instance, last, libraryOpen, parked>>

\* the bytes resize(size) sends, decoded as getSize() decodes a region
PointerLenRoundTrip(size) ==
  /\ codec' = [NoCodec EXCEPT !.op = "pointerLen", !.size = size,
                              !.bytes = ResizeBytes(size),
                              !.back = GetSizeResult([bytes |-> ResizeBytes(size),
                                                      len |-> Len(ResizeBytes(size))])]
  /\ UNCHANGED <<instance, last, libraryOpen, parked>>

\* the child prints str; the engine hands its bytes out in two reads, cut
\* after `cut` bytes; text is what the two read() calls return, concatenated
ReadInChunks(str, cut) ==
  LET bytes == Utf8Encode(str)
      r1 == [status |-> 0, null |-> FALSE, mem |-> CStr(SubSeq(bytes, 1, cut)), msg |-> ""]
      r2 == [status |-> 0, null |-> FALSE,
             mem |-> CStr(SubSeq(bytes, cut + 1, Len(bytes))), msg |-> ""]
  IN  /\ cut \in 0..Len(bytes)
      /\ codec' = [NoCodec EXCEPT !.op = "readChunks", !.str = str, !.cut = cut,
                                  !.bytes = bytes,
                                  !.text = ReadCase0(NoCall, r1).data
                                           \o ReadCase0(NoCall, r2).data]
      /\ UNCHANGED <<instance, last, libraryOpen, parked>>

CodecNext ==
  \/ \E str \in CodecStrings : EncodeText(str)
  \/ \E size \in CodecSizes : JsonRoundTrip(size)
  \/ \E size \in CodecSizes : PointerLenRoundTrip(size)
  \/ \E str \in CodecStrings : \E cut \in 0..(3 * MaxLen) : ReadInChunks(str, cut)

CodecSpec == Init /\ [][CodecNext]_vars

----------------------------------------------------------------------------
(* Properties *)

WrapperOps == {"read", "write", "getSize", "resize"}

\* the engine calls of the last wrapper call that take a session handle
HandleCalls == {i \in 1..Len(last.calls) : last.calls[i].fn # "pty_create"}

\* C1: after close() has been called, read, write, getSize and resize throw
\* "Pty is closed." and make no engine call.
C1_ThrowsAfterClose ==
  (last.op \in WrapperOps /\ last.pre.closed)
    => (last.outcome = "throw" /\ last.msg = ClosedMsg /\ last.calls = << >>)

C1_Witness ==
  /\ last.op = "resize" /\ last.pre.closed
  /\ last.size.pixel_width = UNDEF
  /\ last.outcome = "throw"

\* C2: the engine's close is invoked at most once for the handle; a second
\* or later close() makes no engine call and does not throw.
C2_CloseAtMostOnce ==
  /\ closeCalls <= 1
  /\ (last.op = "close" /\ last.pre.closed)
       => (last.calls = << >> /\ last.outcome = "return")

C2_Witness == last.op = "close" /\ last.pre.closed /\ closeCalls = 1

\* C3: once a read has returned the process-exited result (status 99), every
\* later read on the still-open Pty returns done without calling the
\* engine's read.
C3_ReadAfterExitNoEngineCall ==
  (last.op = "read" /\ last.pre.drained)
    => (last.outcome = "return" /\ last.done /\ last.calls = << >>)

\* C4: once a read has returned done (status 99), every later read on the
\* still-open Pty returns done again, never data and never an error.
C4_ReadAfterExitDone ==
  (last.op = "read" /\ last.pre.drained)
    => (last.outcome = "return" /\ last.done /\ last.data = EmptyStr)

\* C5: after a read has returned the process-exited result, write(data) on
\* the still-open Pty returns without an error and without calling the
\* engine's write.
C5_WriteAfterExitIsNoOp ==
  (last.op = "write" /\ last.pre.drained)
    => (last.outcome = "return" /\ last.calls = << >>)

\* C6: every buffer the engine hands over is released exactly once, by the
\* matching release call, on every path (also when the call throws); the
\* getSize region is released with the length that was used to decode it.
C6_BuffersReleasedOnce ==
  /\ last.buf.kind = "none" => last.frees = << >>
  /\ last.buf.kind = "cstr" => last.frees = <<FreeString>>
  /\ last.buf.kind = "region"
       => (last.frees = <<FreeData(last.decLen)>> /\ last.decLen = last.buf.len)

C6_Witness ==
  /\ last.op = "getSize" /\ last.outcome = "return"
  /\ last.buf = RegionBuf(Len(encodePointerLenData(DefaultSize)))
  /\ Len(last.frees) = 1

\* C7: whatever the interleaving of caller operations and polling-loop steps,
\* every engine operation that takes the handle is started on a live session:
\* none is started once the engine's close has been invoked for the handle.
C7_NoEngineCallAfterClose ==
  \A i \in HandleCalls : last.calls[i].h = Handle /\ last.calls[i].st = "live"

C7_Witness ==
  /\ last.op = "poll" /\ last.by \in StreamIds /\ last.pre.closed
  /\ sess.state = "closed"
  /\ strm[last.by].pc = "exited"

\* C8: when the engine's create returns status 0 with a handle, the
\* constructor returns, and a close() of the open Pty raises no error and
\* passes the minted handle to the engine's close exactly once.
C8_CreateThenClose ==
  /\ (last.op = "new" /\ last.calls[1].ret = 0 /\ ~last.calls[1].outNull)
       => (last.outcome = "return" /\ constructed /\ ptr = Handle
           /\ sess.state = "live")
  /\ (last.op = "close" /\ ~last.pre.closed)
       => /\ last.outcome = "return"
          /\ Len(last.calls) = 1
          /\ last.calls[1].fn = "pty_close"
          /\ last.calls[1].h = Handle
          /\ last.calls[1].st = "live"
  /\ (constructed /\ ptr = NULL) => (closeCalls = 1 /\ sess.state = "closed")

\* the Pty was closed with nothing read, resized or streamed before
C8_Witness ==
  /\ last.op = "close" /\ ~last.pre.closed /\ last.outcome = "return"
  /\ closeCalls = 1
  /\ sess.pos = 0 /\ ~sess.reported99 /\ sess.size = DefaultSize
  /\ nstreams = 0 /\ exitCode = UNDEF

\* C9: when the engine's create returns -1, or 0 with a null handle, the
\* constructor throws (with the engine's message in the -1 case), no Pty
\* comes into existence, and no engine call is ever made with anything but
\* a minted handle.
C9_FailedCreateThrows ==
  /\ (last.op = "new" /\ last.calls[1].ret = -1)
       => (last.outcome = "throw" /\ ~constructed /\ ptr = NULL
           /\ \E m \in EngineMsgs : last.msg = "Pty creation failed: " \o m)
  /\ (last.op = "new" /\ last.calls[1].ret # -1 /\ last.calls[1].outNull)
       => (last.outcome = "throw" /\ ~constructed /\ ptr = NULL
           /\ last.msg = NullCreateMsg)
  /\ \A i \in HandleCalls : last.calls[i].h = Handle
  /\ constructed => sess.state # "free"

C9_Witness ==
  /\ last.op = "new" /\ last.calls[1].ret = -1
  /\ last.outcome = "throw" /\ ~constructed

\* C10: a read the engine answers with status 0 and no data returns
\* { data: "", done: false }; it is no error and not the done result, and
\* the Pty stays open (a polling loop that made the read goes on to wait).
C10_EmptyReadIsNotDone ==
  (/\ last.op = "read" /\ Len(last.calls) = 1
   /\ last.calls[1].ret = 0
   /\ (last.calls[1].outNull \/ last.calls[1].out = CStr(EmptyStr)))
    => /\ last.outcome = "return" /\ last.data = EmptyStr /\ ~last.done
       /\ ptr = Handle
       /\ last.by \in StreamIds
            => (strm[last.by].pc = "wait" /\ ~strm[last.by].done
                /\ strm[last.by].state # "errored")

C10_Witness ==
  /\ last.op = "read" /\ last.by = 0
  /\ last.calls[1].ret = 0 /\ last.calls[1].out = CStr(EmptyStr)
  /\ last.data = EmptyStr /\ ~last.done /\ ptr = Handle

\* the prefix each operation puts before the engine's message
ErrorPrefix(op) ==
  CASE op = "read" -> "Pty read failed: "
    [] op = "write" -> "Pty write failed: "
    [] op = "getSize" -> "Pty getSize failed: "
    [] op = "resize" -> "Pty resize failed: "

\* C11: when the engine answers read, write, getSize or resize with status -1,
\* the call throws an Error carrying the engine's message, and the Pty stays
\* open with its handle and its exit code unchanged; and every such operation
\* on a Pty that has not been closed is forwarded to the engine.
C11_ErrorDoesNotTerminate ==
  /\ []((last.op \in WrapperOps /\ ~last.pre.closed)
          => (Len(last.calls) = 1 /\ last.calls[1].h = Handle))
  /\ [][(last'.op \in WrapperOps /\ Len(last'.calls) = 1
            /\ last'.calls[1].ret = -1)
          => (/\ last'.outcome = "throw"
              /\ \E m \in EngineMsgs : last'.msg = ErrorPrefix(last'.op) \o m
              /\ ptr' = ptr /\ ptr' = Handle
              /\ exitCode' = exitCode
              /\ sess'.state = "live")]_vars

\* a resize failed on a Pty whose exit code had been read
C11_Witness ==
  /\ last.op = "resize" /\ Len(last.calls) = 1 /\ last.calls[1].ret = -1
  /\ last.outcome = "throw"
  /\ ptr = Handle /\ exitCode = 1

\* the step is one in which the polling loop of stream s calls read()
LoopReads(s) == last'.op = "read" /\ last'.by = s

\* C12: when a read made by the polling loop of a readable stream returns
\* done, the stream gets closed (by the loop when the wait that follows the
\* read is over, that timer being pending until then, or earlier by a
\* cancel), the loop makes no further read, and the stream gets no further
\* element.
C12_DoneEndsStream ==
  /\ [](\A s \in StreamIds :
          strm[s].done =>
            \/ strm[s].state = "closed"
            \/ (strm[s].state = "readable" /\ strm[s].pc = "wait" /\ strm[s].timer))
  /\ [][\A s \in StreamIds :
          strm[s].done => (/\ strm'[s].done
                           /\ ~LoopReads(s)
                           /\ strm'[s].chunks = strm[s].chunks
                           /\ strm'[s].state \in {"readable", "closed"})]_vars

\* the loop read a chunk, then done; the timer fired and the stream closed
C12_Witness ==
  \E s \in StreamIds :
    /\ strm[s].done /\ strm[s].pc = "exited" /\ ~strm[s].isCancelled
    /\ strm[s].state = "closed"
    /\ strm[s].chunks = <<Chunk(1)>>
    /\ ptr = Handle

\* C13: when a read made by the polling loop of a readable stream throws (the
\* engine answered -1), the stream is errored with that error, the loop has
\* left, and it never reads again.
C13_ReadErrorEndsStream ==
  /\ [](\A s \in StreamIds :
          (last.op = "read" /\ last.by = s /\ last.outcome = "throw")
            => (/\ strm[s].state = "errored" /\ strm[s].err = last.msg
                /\ strm[s].pc = "exited" /\ ~strm[s].timer))
  /\ [][\A s \in StreamIds :
          strm[s].pc = "exited" => (strm'[s].pc = "exited" /\ ~LoopReads(s))]_vars
  /\ [][\A s \in StreamIds :
          strm[s].state = "errored" => strm'[s] = strm[s]]_vars

\* the loop's second read was answered -1, after a chunk had been delivered
C13_Witness ==
  \E s \in StreamIds :
    /\ last.op = "read" /\ last.by = s /\ last.calls[1].ret = -1
    /\ strm[s].state = "errored"
    /\ strm[s].err \in {"Pty read failed: " \o m : m \in EngineMsgs}
    /\ strm[s].chunks = <<Chunk(1)>>

\* C14: once a readable stream is cancelled, its polling loop makes no further
\* read and no timer of the stream is pending; the cancel itself calls no
\* engine function and leaves the handle, the session and the exit code as
\* they were.
C14_CancelStopsPolling ==
  /\ [](\A s \in StreamIds : strm[s].isCancelled => ~strm[s].timer)
  /\ [][\A s \in StreamIds :
          strm[s].isCancelled => (strm'[s].isCancelled /\ ~LoopReads(s))]_vars
  /\ [][last'.op = "cancel"
          => (/\ last'.calls = << >> /\ last'.outcome = "return"
              /\ ptr' = ptr /\ sess' = sess /\ closeCalls' = closeCalls
              /\ exitCode' = exitCode)]_vars

\* a stream whose loop was waiting has just been cancelled; the Pty is open
C14_Witness ==
  \E s \in StreamIds :
    /\ last.op = "cancel" /\ last.by = s
    /\ strm[s].isCancelled /\ strm[s].pc = "wait" /\ ~strm[s].timer
    /\ ptr = Handle /\ sess.state = "live" /\ closeCalls = 0

\* C15: every read of a polling loop that returns, with data or with an empty
\* string, leaves the loop suspended on a newly set timer, and every read of
\* the loop but its first is made in the step in which that timer fires: no
\* two reads of one stream without a full wait between them.
C15_WaitBetweenReads ==
  /\ [](\A s \in StreamIds :
          (last.op = "read" /\ last.by = s /\ last.outcome = "return")
            => (strm[s].pc = "wait" /\ strm[s].timer
                /\ strm[s].data = last.data /\ strm[s].done = last.done))
  /\ [][\A s \in StreamIds :
          (LoopReads(s) /\ strm[s].pc # "unused")
            => (strm[s].pc = "wait" /\ strm[s].timer /\ ~strm[s].done)]_vars
  /\ [][\A s \in StreamIds :
          (strm[s].pc = "wait" /\ strm[s].timer /\ ~LoopReads(s))
            => (strm'[s] = strm[s] \/ ~strm'[s].timer)]_vars

\* the loop read a chunk, waited, delivered it, and its next read returned
\* an empty string: it waits again
C15_Witness ==
  \E s \in StreamIds :
    /\ last.op = "read" /\ last.by = s /\ last.outcome = "return"
    /\ last.data = EmptyStr /\ ~last.done
    /\ strm[s].chunks = <<Chunk(1)>>
    /\ strm[s].pc = "wait" /\ strm[s].timer

\* C16: when close() is called while a readable stream is polling, the loop
\* never calls read() on the closed Pty; when its pending timer fires it
\* closes the stream and leaves, and the stream never becomes errored.
C16_CloseEndsStreamGracefully ==
  /\ [](\A s \in StreamIds :
          /\ (last.op = "read" /\ last.by = s)
                => (~last.pre.closed /\ last.msg # ClosedMsg)
          /\ (last.op = "poll" /\ last.by = s /\ last.pre.closed)
                => (strm[s].pc = "exited" /\ strm[s].state = "closed")
          /\ (constructed /\ ptr = NULL /\ strm[s].pc = "wait"
               /\ ~strm[s].isCancelled)
                => (strm[s].timer /\ strm[s].state = "readable"))
  /\ [][\A s \in StreamIds :
          (constructed /\ ptr = NULL /\ strm[s].pc # "unused"
           /\ strm[s].state # "errored")
            => strm'[s].state # "errored"]_vars

\* the Pty was closed while the loop waited after an empty read; the timer
\* fired and the loop closed the stream
C16_Witness ==
  \E s \in StreamIds :
    /\ last.op = "poll" /\ last.by = s /\ last.pre.closed
    /\ strm[s].pc = "exited" /\ strm[s].state = "closed"
    /\ ~strm[s].isCancelled /\ ~strm[s].done
    /\ closeCalls = 1

\* the stream has been made and the consumer has not cancelled it
Uncancelled(s) == strm[s].pc # "unused" /\ ~strm[s].isCancelled

Terminal(s) == strm[s].state \in {"closed", "errored"}

\* the errors a read() answered -1 by the engine throws
ReadFailedMsgs == {ErrorPrefix("read") \o m : m \in EngineMsgs}

\* C17 as stated: absent cancellation, a readable stream is in a terminal
\* state only if a read of its loop returned process-exited or threw an
\* error of the engine's read.
C17_FiniteOnlyOnExitOrError ==
  \A s \in StreamIds :
    (Uncancelled(s) /\ Terminal(s))
      => (strm[s].done \/ strm[s].err \in ReadFailedMsgs \cup {UnexpectedMsg})

\* C17, amended: absent cancellation, a readable stream reaches a terminal
\* state exactly when a read of its loop was answered 99 (closed, once the
\* wait after that read is over), a read of its loop threw (errored, at
\* once), or the Pty has been closed (closed at the loop's next turn, or
\* errored from the start if the stream was made after close()); in every
\* other state its loop is suspended on a pending timer, so it polls on.
C17_FiniteExactlyWhen ==
  /\ [](\A s \in StreamIds :
          /\ (last.op = "read" /\ last.by = s /\ last.outcome = "return")
                => (/\ strm[s].done <=> last.calls[1].ret = 99
                    /\ strm[s].state = "readable")
          /\ (last.op = "read" /\ last.by = s /\ last.outcome = "throw")
                => (/\ Len(last.calls) = 1 /\ last.calls[1].ret \notin {0, 99}
                    /\ strm[s].state = "errored")
          /\ (strm[s].done /\ strm[s].pc = "exited") => Terminal(s)
          /\ (Uncancelled(s) /\ ~Terminal(s))
                => (strm[s].pc = "wait" /\ strm[s].timer)
          /\ (Uncancelled(s) /\ Terminal(s))
                => \/ strm[s].done
                   \/ strm[s].err \in ReadFailedMsgs \cup {UnexpectedMsg}
                   \/ (constructed /\ ptr = NULL))
  /\ [][\A s \in StreamIds :
          (strm[s].pc # "unused" /\ ~Terminal(s) /\ Terminal(s)')
            => \/ strm'[s].isCancelled
               \/ strm[s].done
               \/ (LoopReads(s) /\ last'.outcome = "throw"
                   /\ Len(last'.calls) = 1)
               \/ (constructed /\ ptr = NULL)]_vars

\* the Pty was closed under a polling stream: the stream is closed though no
\* read returned done or threw and nobody cancelled it
C17_Witness ==
  \E s \in StreamIds :
    /\ Uncancelled(s) /\ strm[s].state = "closed"
    /\ ~strm[s].done /\ strm[s].err = ""
    /\ constructed /\ ptr = NULL
    /\ exitCode = UNDEF /\ ~sess.reported99

\* the step is a write through the writable stream, which had been obtained
\* while the Pty was open, made after the Pty was closed
WriteAfterClose ==
  last'.op = "writable.write" /\ last'.pre.closed /\ wstrm.sink = "open"

C19_StreamsOfClosedPty ==
  /\ [](
         /\ (last.op = "readable")
               => (/\ last.pre.closed /\ last.calls = << >>
                   /\ strm[last.by].state = "errored"
                   /\ strm[last.by].err = ClosedMsg)
         /\ \A s \in StreamIds :
              (strm[s].err = ClosedMsg)
                => (/\ strm[s].state = "errored" /\ strm[s].pc = "exited"
                    /\ ~strm[s].timer /\ strm[s].chunks = << >>)
         /\ (last.op = "writable" /\ last.pre.closed)
               => (/\ last.calls = << >>
                   /\ wstrm.sink = "closed"
                   /\ wstrm.state = "errored" /\ wstrm.err = ClosedMsg)
         /\ (last.op = "writable" /\ ~last.pre.closed)
               => (wstrm.sink = "open" /\ wstrm.state = "writable")
         /\ (last.op = "writable.write" /\ wstrm.sink = "closed")
               => (/\ last.outcome = "throw" /\ last.msg = ClosedMsg
                   /\ last.calls = << >>
                   /\ wstrm.state = "errored" /\ wstrm.err = ClosedMsg))
  /\ [][\A s \in StreamIds :
          strm[s].err = ClosedMsg => (strm'[s] = strm[s] /\ ~LoopReads(s))]_vars

\* both streams were obtained after close(), and a write on the writable one
\* was rejected
C19_Witness ==
  /\ last.op = "writable.write" /\ last.outcome = "throw" /\ last.msg = ClosedMsg
  /\ wstrm.sink = "closed"
  /\ \E s \in StreamIds : strm[s].err = ClosedMsg /\ strm[s].pc = "exited"
  /\ closeCalls = 1

\* C20: getPollingInterval() called on a Pty right after its construction,
\* before any setPollingInterval, returns 30.
C20_DefaultIntervalIs30 ==
  [][(last.op = "new" /\ last.outcome = "return"
      /\ last'.op = "getPollingInterval")
       => last'.interval = 30]_vars

\* C21: setPollingInterval(ms) stores ms when ms > 0 and leaves the interval
\* unchanged when ms is 0 or negative; no other operation changes it;
\* getPollingInterval() returns the stored value, which is always positive.
C21_IntervalStaysPositive ==
  /\ [](pollingIntervalMs > 0)
  /\ [](last.op = "getPollingInterval"
          => (last.interval = pollingIntervalMs /\ last.interval > 0))
  /\ [][last'.op = "setPollingInterval"
          => /\ last'.interval > 0 => pollingIntervalMs' = last'.interval
             /\ last'.interval <= 0
                  => (pollingIntervalMs' = pollingIntervalMs /\ last'.msg = WarnMsg)]_vars
  /\ [][last'.op # "setPollingInterval"
          => pollingIntervalMs' = pollingIntervalMs]_vars

\* setPollingInterval(-10) after setPollingInterval(5): the interval is still 5
C21_Witness ==
  /\ last.op = "setPollingInterval" /\ last.interval = -10
  /\ last.msg = WarnMsg
  /\ pollingIntervalMs = 5

\* C22: a readable stream created before a setPollingInterval call keeps
\* waiting the interval that was in effect when it was created: every wait of
\* a stream is as long as its previous one.
C22_StreamKeepsItsInterval ==
  [][\A s \in StreamIds :
       (strm[s].pc = "wait" /\ strm'[s].pc = "wait")
         => strm'[s].waitMs = strm[s].waitMs]_vars

\* the PtySize a caller passed, with each omitted pixel field read as 0
SizeWithZeros(size) ==
  [rows |-> size.rows, cols |-> size.cols,
   pixel_width |-> IF size.pixel_width = UNDEF THEN 0 ELSE size.pixel_width,
   pixel_height |-> IF size.pixel_height = UNDEF THEN 0 ELSE size.pixel_height]

ResizeSucceeded(c) ==
  c.op = "resize" /\ c.outcome = "return" /\ ~c.pre.closed

\* C23: after resize(s) succeeds on an open Pty, the next getSize() that
\* returns gives rows, cols, pixel_width and pixel_height equal to s, an
\* omitted pixel field being reported as 0.
C23_GetSizeAfterResize ==
  [][(ResizeSucceeded(last) /\ last'.op = "getSize" /\ last'.outcome = "return")
       => last'.size = SizeWithZeros(last.size)]_vars

\* getSize() answers rows 1, cols 1 and pixels 0: the size of the resize that
\* omitted both pixel fields
C23_Witness ==
  /\ last.op = "getSize" /\ last.outcome = "return"
  /\ last.size = [rows |-> 1, cols |-> 1, pixel_width |-> 0, pixel_height |-> 0]

\* C24: resize sets a missing pixel_width or pixel_height to 0 before the size
\* is encoded and sent, and sends rows, cols and every supplied pixel field
\* as the caller gave them.
C24_ResizeDefaultsOnlyMissing ==
  (last.op = "resize" /\ ~last.pre.closed)
    => /\ Len(last.calls) = 1 /\ last.calls[1].fn = "pty_resize"
       /\ last.sent = encodePointerLenData(SizeWithZeros(last.size))

\* a resize given pixel fields 1 and 1 sent them, and one given none sent 0
C24_Witness ==
  /\ last.op = "resize" /\ last.size.pixel_width = 1
  /\ last.sent = <<50, 0, 120, 0, 1, 0, 1, 0>>

\* C25: getSize() returns the size of the most recent successful resize (the
\* creation size if there was none): reads and writes never change the size
\* the engine holds, a successful resize sets it and a failed one leaves it,
\* getSize() returns it; and on a Pty that is open, getSize and resize are
\* forwarded to the live session also after a read was answered
\* process-exited.
C25_SizeSurvivesReadsAndExit ==
  /\ [][last'.op \in {"read", "write"} => sess'.size = sess.size]_vars
  /\ [][last'.op = "resize"
          => sess'.size = IF ResizeSucceeded(last') THEN SizeWithZeros(last'.size)
                          ELSE sess.size]_vars
  /\ []((last.op = "getSize" /\ last.outcome = "return") => last.size = sess.size)
  /\ []((last.op \in {"getSize", "resize"} /\ ~last.pre.closed)
          => (/\ Len(last.calls) = 1
              /\ last.calls[1].h = Handle
              /\ last.calls[1].st = "live"))

\* after the process exit was reported, getSize() on the open Pty returns the
\* size set by a resize
C25_Witness ==
  /\ last.op = "getSize" /\ last.pre.drained /\ last.outcome = "return"
  /\ last.size = [rows |-> 50, cols |-> 120, pixel_width |-> 1, pixel_height |-> 1]
  /\ last.calls[1].st = "live"

\* the program's other Pty object has been closed
OtherClosed == parked[1] /\ parked[2] = NULL

\* C26: Pty objects are independent. A call on one object changes nothing of
\* the other (the other's state changes only by becoming the object in use);
\* close() never unloads the library, so no engine call ever finds it
\* unloaded; read, write and getSize on an open Pty reach its live session
\* whatever happened to the other; and a constructor run after the other
\* was closed makes its pty_create call on the loaded library.
C26_InstancesIndependent ==
  /\ []libraryOpen
  /\ [][parked' # parked => (instance' = parked /\ parked' = instance)]_vars
  /\ [](\A i \in 1..Len(last.calls) : last.calls[i].st # "unloaded")
  /\ []((last.op \in {"read", "write", "getSize"} /\ ~last.pre.closed)
          => (Len(last.calls) >= 1 /\ last.calls[1].st = "live"))

\* a second Pty is created after the first one was closed
C26_Witness ==
  /\ OtherClosed /\ parked[5] = 1
  /\ last.op = "new" /\ last.outcome = "return"
  /\ ptr = Handle /\ sess.state = "live"

\* C27: for every string without a zero character, multi-byte characters
\* included, the text encoder returns the complete UTF-8 encoding of the
\* string followed by exactly one zero byte.
C27_EncodeTextComplete ==
  codec.op = "encodeCString" => codec.bytes = Utf8Encode(codec.str) \o <<0>>

Contains(text, str) ==
  \E i \in 1..(Len(text) + 1) :
    i + Len(str) - 1 <= Len(text) /\ SubSeq(text, i, i + Len(str) - 1) = str

\* C29: the concatenation of the data of all reads contains the string the
\* child printed, wherever the engine cut its bytes into chunks.
C29_ChunkedOutputIntact ==
  codec.op = "readChunks" => Contains(codec.text, codec.str)

\* the engine function each wrapper operation invokes
EngineFnOf ==
  [new |-> "pty_create", read |-> "pty_read", write |-> "pty_write",
   getSize |-> "pty_get_size", resize |-> "pty_resize"]

\* C30: no wrapper operation retries: a call of the constructor, read, write,
\* getSize or resize invokes its engine function at most once, also when the
\* engine answers with an error or with no data.
C30_NoRetry ==
  last.op \in DOMAIN EngineFnOf
    => Cardinality({i \in 1..Len(last.calls) : last.calls[i].fn = EngineFnOf[last.op]}) <= 1

\* a write the engine answered with -1 threw after its one pty_write call
C30_Witness ==
  /\ last.op = "write" /\ last.outcome = "throw"
  /\ Len(last.calls) = 1 /\ last.calls[1].ret = -1

\* the call c is a read the engine answered 99 with an exit-code string
Read99WithText(c) ==
  /\ c.op = "read" /\ Len(c.calls) = 1
  /\ c.calls[1].ret = 99 /\ ~c.calls[1].outNull

\* the exit code the engine's text stands for
ExitCodeOf(mem) ==
  CASE mem = <<48, 0>> -> 0
    [] mem = <<49, 0>> -> 1
    [] OTHER -> UNDEF

C32_OnlyCloseRetires ==
  /\ []((last.op = "new" /\ last.outcome = "return") => (constructed /\ ptr # NULL))
  /\ [](last.op = "close" => ptr = NULL)
  /\ [][ptr' # ptr
          => \/ (last'.op = "new" /\ ~constructed /\ ptr' # NULL)
             \/ (last'.op = "close" /\ ptr' = NULL)]_vars
  /\ [][(constructed /\ ptr = NULL) => (constructed' /\ ptr' = NULL)]_vars

\* the exit was read, a read failed on a stream, a stream was cancelled and
\* the writer was aborted: the Pty is still open
C32_Witness ==
  /\ ptr = Handle /\ exitCode # UNDEF
  /\ \E s \in StreamIds : strm[s].isCancelled
  /\ wstrm.state = "errored" /\ wstrm.err = AbortReason
  /\ last.op = "writable.abort"

\* C33: close() never throws: an exception of the engine's close is caught
\* and logged; #ptr is null when close() returns, whether the engine call
\* returned or raised, so every later read, write, getSize and resize is
\* rejected with "Pty is closed." without an engine call.
C33_CloseNeverThrows ==
  /\ [](last.op = "close" => (last.outcome = "return" /\ ptr = NULL))
  /\ []((last.op = "close" /\ ~last.pre.closed)
          => (/\ Len(last.calls) = 1
              /\ last.calls[1].fn = "pty_close" /\ last.calls[1].h = Handle))
  /\ [][(last.op = "close" /\ last.msg = CloseLogMsg /\ last'.op \in WrapperOps)
          => (/\ last'.pre.closed
              /\ last'.outcome = "throw" /\ last'.msg = ClosedMsg
              /\ last'.calls = << >>)]_vars
  /\ []((last.op \in WrapperOps /\ last.pre.closed)
          => (last.outcome = "throw" /\ last.msg = ClosedMsg /\ last.calls = << >>))

\* the engine's close raised: close() returned, logged it, and the Pty is closed
C33_Witness ==
  /\ last.op = "close" /\ last.msg = CloseLogMsg /\ last.outcome = "return"
  /\ Len(last.calls) = 1
  /\ constructed /\ ptr = NULL

\* C34: the polling loop gives its stream at most one terminal signal
\* (controller.close() or controller.error()) and has left once it gave one;
\* it never calls controller.enqueue() on a stream that is no longer
\* readable, so the elements of a closed or errored stream never grow; once
\* the stream is cancelled the loop gives no signal at all.
C34_OneTerminalSignal ==
  /\ [](\A s \in StreamIds :
          /\ strm[s].signals <= 1
          /\ ~strm[s].late
          /\ strm[s].signals = 1 => (strm[s].pc = "exited" /\ ~strm[s].timer)
          /\ strm[s].isCancelled => (strm[s].signals = 0 /\ strm[s].state = "closed"))
  /\ [][\A s \in StreamIds :
          /\ strm[s].state # "readable" => strm'[s].chunks = strm[s].chunks
          /\ strm[s].isCancelled => strm'[s] = strm[s]]_vars

\* a stream that yielded a chunk was errored by its loop, once
C34_Witness ==
  \E s \in StreamIds :
    /\ strm[s].state = "errored" /\ strm[s].signals = 1
    /\ strm[s].chunks # << >> /\ strm[s].pc = "exited"

\* the string of the latest read of the loop of s, while the loop waits
\* before handling it
Pending(s) ==
  IF strm[s].pc = "wait" /\ Len(strm[s].data) > 0 THEN <<strm[s].data>> ELSE << >>

C36_NoOutputLost ==
  /\ [][\A s \in StreamIds :
          (Pending(s) # << >> /\ strm'[s] # strm[s] /\ ~strm'[s].isCancelled)
            => (/\ strm'[s].chunks = Append(strm[s].chunks, strm[s].data)
                /\ strm'[s].reads = strm'[s].chunks \o Pending(s)')]_vars
  /\ [](\A s \in StreamIds :
          strm[s].signals > 0 => strm[s].chunks = strm[s].reads)

\* the Pty was closed during the wait after a read that returned a chunk: the
\* loop enqueued the chunk and then closed the stream
C36_Witness ==
  \E s \in StreamIds :
    /\ last.op = "poll" /\ last.by = s /\ last.pre.closed
    /\ strm[s].state = "closed" /\ strm[s].signals = 1
    /\ strm[s].chunks = <<Chunk(1)>>

\* the chunks the engine has returned to reads so far
HandedOut == {Chunk(i) : i \in 1..sess.pos}

Elems(seq) == {seq[i] : i \in 1..Len(seq)}

\* the streams that yielded chunk c, and those whose loop read it
Yielders(c) == {s \in TwoStreamIds : c \in Elems(strm[s].chunks)}
Readers(c) == {s \in TwoStreamIds : c \in Elems(strm[s].reads)}

\* the loop of s still waits, on a live timer, to enqueue c
AwaitsEnqueue(s, c) == strm[s].pc = "wait" /\ strm[s].timer /\ strm[s].data = c

\* each stream has its own loop, and a cancel of one leaves the other alone
LoopsIndependent ==
  /\ [](\A s \in TwoStreamIds :
          /\ (s <= nstreams) = (strm[s].pc # "unused")
          /\ (strm[s].pc = "wait" /\ ~strm[s].isCancelled) => strm[s].timer)
  /\ [][\A s, t \in TwoStreamIds :
          (last'.op = "cancel" /\ last'.by = s /\ t # s) => strm'[t] = strm[t]]_vars

\* C37 as stated: with two streams on one Pty each has its own loop, every
\* chunk the engine returned is delivered to exactly one of them once the
\* wait after its read is over, and a cancel of one does not stop the other.
C37_EachChunkToExactlyOne ==
  /\ LoopsIndependent
  /\ [](\A c \in HandedOut :
          /\ Cardinality(Yielders(c)) <= 1
          /\ (\A s \in TwoStreamIds : ~AwaitsEnqueue(s, c))
               => Cardinality(Yielders(c)) = 1)

\* C37, amended: with two streams on one Pty each has its own loop and a
\* cancel of one does not stop the other; every chunk the engine returned was
\* read by the loop of exactly one stream and is yielded by no other stream
\* (never duplicated); that stream yields it once its wait is over, unless
\* it was cancelled during that wait, in which case no stream yields it.
C37_EachChunkToAtMostOne ==
  /\ LoopsIndependent
  /\ [](\A c \in HandedOut :
          /\ Cardinality(Readers(c)) = 1
          /\ Yielders(c) \subseteq Readers(c)
          /\ \A s \in Readers(c) :
               \/ s \in Yielders(c)
               \/ AwaitsEnqueue(s, c)
               \/ (strm[s].isCancelled /\ strm[s].data = c /\ Yielders(c) = {}))

\* stream 1 was cancelled; stream 2 went on, read the chunk and yielded it
C37_Witness ==
  /\ strm[1].isCancelled /\ strm[1].chunks = << >>
  /\ strm[2].chunks = <<Chunk(1)>> /\ strm[2].state = "readable" /\ strm[2].timer

\* C38: once a read of a stream's loop has returned process-exited, the
\* stream stays readable with its timer pending for the wait that follows
\* (unless it is cancelled), and, timers firing, it eventually is closed.
C38_ExitEventuallyCloses ==
  /\ [](\A s \in StreamIds :
          (strm[s].pc = "wait" /\ strm[s].done /\ ~strm[s].isCancelled)
            => (strm[s].state = "readable" /\ strm[s].timer /\ strm[s].signals = 0))
  /\ \A s \in StreamIds :
       (strm[s].pc = "wait" /\ strm[s].done) ~> (strm[s].state = "closed")

\* the loop read the exit, waited, and closed the stream of the open Pty
C38_Witness ==
  \E s \in StreamIds :
    /\ strm[s].done /\ strm[s].pc = "exited"
    /\ strm[s].state = "closed" /\ strm[s].signals = 1
    /\ ptr = Handle /\ last.op = "poll" /\ last.by = s

\* C39: closing or aborting a writer of the writable stream makes no engine
\* call and changes nothing of the Pty or of the engine's session; as long
\* as close() was not called, a read, write, getSize or resize made after
\* the writer ended is forwarded to the live session; the session is ended
\* by close() alone.
C39_WriterEndLeavesPtyOpen ==
  /\ [](last.op \in {"writable.close", "writable.abort"} => last.calls = << >>)
  /\ [][last'.op \in {"writable.close", "writable.abort"}
          => /\ ptr' = ptr /\ sess' = sess /\ closeCalls' = closeCalls
             /\ exitCode' = exitCode /\ libraryOpen' = libraryOpen]_vars
  /\ [][(/\ wstrm.state \in {"closed", "errored"} /\ closeCalls = 0
          /\ constructed /\ last'.op \in WrapperOps)
          => /\ ~last'.pre.closed
             /\ last'.msg # ClosedMsg
             /\ Len(last'.calls) >= 1
             /\ \A i \in 1..Len(last'.calls) :
                  last'.calls[i].h = Handle /\ last'.calls[i].st = "live"]_vars
  /\ [][(sess.state = "live" /\ sess'.state # "live") => last'.op = "close"]_vars

\* the writer was closed, and a write made through the Pty afterwards was
\* taken by the engine
C39_Witness ==
  /\ wstrm.state = "closed" /\ ptr = Handle /\ sess.state = "live"
  /\ last.op = "write" /\ last.outcome = "return"
  /\ Len(last.calls) = 1 /\ last.calls[1].fn = "pty_write"

====
